---- MODULE Spec2Model ----
(***************************************************************************)
(* A model of the resource-to-scene attachment pipeline:                   *)
(*   - RenderHandler (src/src/resources/render.js): resolution of a render *)
(*     asset against its container asset through the asset registry;       *)
(*   - RenderComponent (src/unnamed/part_000): geometry instances kept in  *)
(*     step with layers, shadow casters and batch groups;                  *)
(*   - TextureHandler (src/src/resources/render.js): parser selection,     *)
(*     open with mip-chain completion, and patch of the texture type.      *)
(* The subsystems share no state; each has its own specifications over the *)
(* variables of this module: SpecResolver; SpecComponent, SpecLifecycle,   *)
(* SpecFields, SpecSetters, SpecFlags, SpecScene and SpecLayers;           *)
(* SpecTextureOpen and SpecTextureAsset.                                   *)
(***************************************************************************)
EXTENDS Integers, Sequences, FiniteSets, TLC

\* ------------------------------------------------------------------ bounds
\* the number of RenderHandler.patch calls explored for the render asset
MaxPatch == 3
\* the number of entries of the container's renders array
NumRenders == 2
\* the largest layer id a component's layer list may name
MaxLayerId == 2
\* the geometry instances a caller may hand to the meshInstances setter
NumUserInst == 1
\* the primitives the type setter may build (each a new MeshInstance)
MaxPrims == 1
\* the primitives the type setter may build where the component's fields are followed
MaxShapes == 2
\* the largest batch group id (ids 0..MaxBatchGroup exist; -1 is "no group")
MaxBatchGroup == 0

\* the largest width and height of a texture a parser returns
MaxDim == 6
\* the callbacks the component may hold in the asset registry for one event key
MaxSubs == 2

\* the id of the world layer (import of part_000, line 1)
LAYERID_WORLD == 0

VARIABLES
    \* ---- RenderHandler: the render asset, its container and the registry
    regState,       \* container: "absent" (registry.get finds nothing), "unloaded", "loaded"
    loading,        \* registry.load(container) is in flight
    hasContainerRef,\* asset.data.containerAsset is truthy
    renderIndex,    \* asset.data.renderIndex
    resourceOK,     \* asset.resource is truthy
    meshes,         \* asset.resource.meshes: 0 unset, else the render's mesh group
    regSubs,        \* the registry's callbacks with the render asset as scope, in order
    patchCalls,     \* patch calls made
    loadCalls,      \* registry.load calls made by the resolver
    extractions,    \* assignments to asset.resource.meshes
    lastPatch,      \* the last patch call: the branch it took, and asset.resource and
                    \* the container's state when it was called
    \* ---- RenderComponent, its entity and the scene
    type,           \* this._type
    area,           \* this._area: "null", or the area of the primitive of that name
    castShadows,    \* this._castShadows
    batchGroupId,   \* this._batchGroupId
    meshInstances,  \* this._meshInstances: null or a list of instances
    layers,         \* this._layers: a list of layer ids
    enabled,        \* this.enabled
    entityEnabled,  \* this.entity.enabled
    primCount,      \* MeshInstances built by the type setter so far
    miCastShadow,   \* castShadow of every MeshInstance
    sceneLayers,    \* ids of the layers of scene.layers (getLayerById finds them)
    layerMI,        \* per layer and instance: entries in the layer's mesh instance list
    layerSC,        \* per layer and instance: entries in the layer's shadow caster list
    batchNodes,     \* batch groups the entity is registered in
    sceneSubs,      \* the component's callbacks on scene 'set:layers' and layers 'add'/'remove'
    threw,          \* the last operation raised an error
    hist,           \* the last operation (or tracked pair) and the state before it
    material,       \* this._material
    miMaterial,     \* material of every MeshInstance
    entitySubs,     \* the component's callbacks on the entity's 'insert' and 'remove'
    materialEvents, \* this._materialEvents: null, or the event keys recorded
    assetSubs,      \* per event key: the component's callbacks in the asset registry
    detached,       \* onRemove has been called
    calls,          \* what the last operation did step by step, when that is followed:
                    \* the layer calls and writes of a castShadows set, the argument
                    \* of a layers set
    receiveShadows, \* this._receiveShadows
    isStatic,       \* this._isStatic
    lightmapped,    \* this._lightmapped
    miReceiveShadow, \* receiveShadow of every MeshInstance
    miIsStatic,     \* isStatic of every MeshInstance
    miLightmapped,  \* per MeshInstance: whether it is lightmapped (setLightmapped)
    staleSubs,      \* the component's callbacks on 'add'/'remove' of layer sets that
                    \* are no longer scene.layers
    \* ---- TextureHandler and the texture asset
    texture,        \* asset.resource of the texture asset
    texLog          \* the last TextureHandler call: its arguments and what it chose

resolverVars == <<regState, loading, hasContainerRef, renderIndex, resourceOK, meshes,
                  regSubs, patchCalls, loadCalls, extractions, lastPatch>>

componentVars == <<type, area, castShadows, batchGroupId, meshInstances, layers, enabled,
                   entityEnabled, primCount, miCastShadow, sceneLayers, layerMI, layerSC,
                   batchNodes, sceneSubs, threw, hist, material, miMaterial, entitySubs,
                   materialEvents, assetSubs, detached, calls, receiveShadows, isStatic,
                   lightmapped, miReceiveShadow, miIsStatic, miLightmapped, staleSubs>>

textureVars == <<texture, texLog>>

vars == <<resolverVars, componentVars, textureVars>>

\* ------------------------------------------------ the asset registry (events)
\* EventHandler.once(name, callback, scope): one more callback, flagged once
RegistryOnce(subs, evt, handler) ==
    Append(subs, [evt |-> evt, handler |-> handler, once |-> TRUE])

RECURSIVE RegistryOff(_, _, _)
\* EventHandler.off(name, callback, scope): every matching callback is dropped
RegistryOff(subs, evt, handler) ==
    IF subs = <<>> THEN <<>>
    ELSE IF Head(subs).evt = evt /\ Head(subs).handler = handler
         THEN RegistryOff(Tail(subs), evt, handler)
         ELSE <<Head(subs)>> \o RegistryOff(Tail(subs), evt, handler)

RECURSIVE RemoveFirst(_, _)
\* the splice of one fired once-callback out of the callback list
RemoveFirst(subs, s) ==
    IF subs = <<>> THEN <<>>
    ELSE IF Head(subs) = s THEN Tail(subs)
         ELSE <<Head(subs)>> \o RemoveFirst(Tail(subs), s)

RECURSIVE Matching(_, _)
\* the callbacks registered for an event name, in registration order
Matching(subs, evt) ==
    IF subs = <<>> THEN <<>>
    ELSE IF Head(subs).evt = evt THEN <<Head(subs)>> \o Matching(Tail(subs), evt)
         ELSE Matching(Tail(subs), evt)

\* container.resources[0].renders[i]: the mesh group of render i, 0 when there is none
ContainerRender(i) == IF i \in 0..(NumRenders - 1) THEN i + 1 ELSE 0

\* the part of the state the resolver's callbacks read and write
World == [subs |-> regSubs, loading |-> loading, loadCalls |-> loadCalls,
          meshes |-> meshes, extractions |-> extractions]

\* registry.load(asset): nothing when the asset is loading or loaded
RegistryLoad(w) == [w EXCEPT !.loading = TRUE, !.loadCalls = @ + 1]

\* ------------------------------------------------------------ RenderHandler
\* onContainerAssetLoaded without its check of renderAsset.resource
OnContainerAssetLoadedUnchecked(w) ==
    IF ContainerRender(renderIndex) # 0
    THEN [w EXCEPT !.meshes = ContainerRender(renderIndex), !.extractions = @ + 1]
    ELSE w

\* onContainerAssetLoaded.call(renderAsset, containerAsset)
OnContainerAssetLoaded(w) ==
    IF ~resourceOK THEN w
    ELSE IF ContainerRender(renderIndex) # 0
         THEN [w EXCEPT !.meshes = ContainerRender(renderIndex), !.extractions = @ + 1]
         ELSE w

\* onContainerAssetAdded.call(renderAsset, containerAsset)
OnContainerAssetAdded(w, isLoaded) ==
    IF ~isLoaded
    THEN RegistryLoad([w EXCEPT !.subs =
             RegistryOnce(RegistryOff(@, "load", "onContainerAssetLoaded"),
                          "load", "onContainerAssetLoaded")])
    ELSE OnContainerAssetLoaded(w)

RECURSIVE Fire(_, _, _)
\* EventHandler.fire: the callbacks of a copy of the list are called in order, and a
\* once-callback is spliced out of the list after its call
Fire(w, cbs, isLoaded) ==
    IF cbs = <<>> THEN w
    ELSE LET cb == Head(cbs)
             called == IF cb.handler = "onContainerAssetAdded"
                       THEN OnContainerAssetAdded(w, isLoaded)
                       ELSE OnContainerAssetLoaded(w)
             after == IF cb.once THEN [called EXCEPT !.subs = RemoveFirst(@, cb)]
                      ELSE called
         IN Fire(after, Tail(cbs), isLoaded)

\* RenderHandler.patch(asset, registry): the state it leaves and the branch it took.
\* With registry.get returning nothing, line 53 reads containerAsset.id of that
\* nothing: a TypeError, raised before registry.once is reached.
PatchResult(w) ==
    IF ~hasContainerRef THEN [w |-> w, branch |-> "noContainerRef"]
    ELSE IF regState = "absent" THEN [w |-> w, branch |-> "TypeError"]
    ELSE IF regState = "unloaded"
         THEN [w |-> RegistryLoad([w EXCEPT !.subs =
                         RegistryOnce(@, "load", "onContainerAssetLoaded")]),
               branch |-> "load"]
         ELSE [w |-> OnContainerAssetLoaded(w), branch |-> "extract"]

\* the callbacks' effects written back to the variables
SetWorld(w) ==
    /\ regSubs' = w.subs
    /\ loading' = w.loading
    /\ loadCalls' = w.loadCalls
    /\ meshes' = w.meshes
    /\ extractions' = w.extractions

InitResolver ==
    /\ regState \in {"absent", "unloaded", "loaded"}
    /\ loading = FALSE
    /\ hasContainerRef \in BOOLEAN
    /\ renderIndex \in 0..NumRenders
    /\ resourceOK \in BOOLEAN
    /\ meshes = 0
    /\ regSubs = <<>>
    /\ patchCalls = 0
    /\ loadCalls = 0
    /\ extractions = 0
    /\ lastPatch = [branch |-> "none", resource |-> resourceOK, container |-> regState]

\* the loader (or anyone) calls handler.patch(asset, registry)
Patch ==
    /\ patchCalls < MaxPatch
    /\ patchCalls' = patchCalls + 1
    /\ LET r == PatchResult(World)
       IN /\ SetWorld(r.w)
          /\ lastPatch' = [branch |-> r.branch, resource |-> resourceOK,
                            container |-> regState]
    /\ UNCHANGED <<regState, hasContainerRef, renderIndex, resourceOK>>

\* registry.add(container): the container becomes known, loaded or not, and
\* 'add:<id>' is fired
RegistryAdd(isLoaded) ==
    /\ regState = "absent"
    /\ regState' = IF isLoaded THEN "loaded" ELSE "unloaded"
    /\ SetWorld(Fire(World, Matching(regSubs, "add"), isLoaded))
    /\ UNCHANGED <<hasContainerRef, renderIndex, resourceOK, patchCalls, lastPatch>>

\* someone other than the resolver asks the registry to load the container
ExternalLoad ==
    /\ regState = "unloaded"
    /\ ~loading
    /\ loading' = TRUE
    /\ UNCHANGED <<regState, hasContainerRef, renderIndex, resourceOK, meshes, regSubs,
                   patchCalls, loadCalls, extractions, lastPatch>>

\* the container's load completes: it is loaded and 'load:<id>' is fired
LoadDone ==
    /\ regState = "unloaded"
    /\ loading
    /\ regState' = "loaded"
    /\ SetWorld(Fire([World EXCEPT !.loading = FALSE], Matching(regSubs, "load"), TRUE))
    /\ UNCHANGED <<hasContainerRef, renderIndex, resourceOK, patchCalls, lastPatch>>

\* asset.unload(): the render asset loses its resource
UnloadResource ==
    /\ resourceOK
    /\ resourceOK' = FALSE
    /\ meshes' = 0
    /\ UNCHANGED <<regState, loading, hasContainerRef, renderIndex, regSubs,
                   patchCalls, loadCalls, extractions, lastPatch>>

NextResolver ==
    /\ \/ Patch
       \/ \E isLoaded \in BOOLEAN : RegistryAdd(isLoaded)
       \/ ExternalLoad
       \/ LoadDone
       \/ UnloadResource
    /\ UNCHANGED <<componentVars, textureVars>>

\* ------------------------------------------------- RenderHandler: the claims
\* a patch call is the step that counts one more call
PatchStep == patchCalls' = patchCalls + 1

LoadSub == [evt |-> "load", handler |-> "onContainerAssetLoaded", once |-> TRUE]
AddSub == [evt |-> "add", handler |-> "onContainerAssetAdded", once |-> TRUE]

\* C2: one patch call for an asset with a resource, a container id and a valid render
\* index, whatever the container's state at the call, has ended, once the container
\* is loaded and the notifications are delivered, with meshes equal to the container's
\* indexed mesh group after exactly one extraction.
C2_ResolverConverges ==
    (/\ patchCalls = 1
     /\ hasContainerRef
     /\ resourceOK
     /\ ContainerRender(renderIndex) # 0
     /\ regState = "loaded")
    => (meshes = ContainerRender(renderIndex) /\ extractions = 1)

\* C3: a patch call that finds no container in the registry raises no error, registers
\* exactly one one-shot 'add:<id>' subscription for the render asset, calls no load and
\* leaves the resource alone; every patch call (with a container id) takes exactly one
\* of the three branches.
C3_UnregisteredSubscribesToAdd ==
    [][(PatchStep /\ hasContainerRef) =>
          /\ lastPatch'.branch \in {"add", "load", "extract"}
          /\ regState = "absent" =>
                /\ lastPatch'.branch = "add"
                /\ regSubs' = Append(regSubs, AddSub)
                /\ loadCalls' = loadCalls
                /\ loading' = loading
                /\ meshes' = meshes
                /\ extractions' = extractions]_vars

\* C4 (as claimed): a patch call made while asset.resource is falsy registers no
\* subscription, calls no registry.load and changes no asset state, in every state
\* of the container.
C4_FalsyResourceNoSideEffects ==
    [][(PatchStep /\ ~resourceOK) =>
          /\ regSubs' = regSubs
          /\ loadCalls' = loadCalls
          /\ loading' = loading
          /\ meshes' = meshes
          /\ extractions' = extractions
          /\ resourceOK' = resourceOK
          /\ regState' = regState]_vars

\* C4 (amended): while asset.resource is falsy no step of the resolver (patch, or a
\* callback fired by 'add' or 'load') assigns meshes or changes the resource; a patch
\* call then registers no subscription and calls no load unless the container is
\* registered but not loaded, where it still registers one 'load:<id>' subscription
\* and calls registry.load.
C4_FalsyResourceNoExtraction ==
    [][~resourceOK =>
          /\ meshes' = meshes
          /\ extractions' = extractions
          /\ resourceOK' = resourceOK
          /\ PatchStep =>
                /\ regState' = regState
                /\ IF hasContainerRef /\ regState = "unloaded"
                   THEN /\ regSubs' = Append(regSubs, LoadSub)
                        /\ loadCalls' = loadCalls + 1
                        /\ loading'
                   ELSE /\ regSubs' = regSubs
                        /\ loadCalls' = loadCalls
                        /\ loading' = loading]_vars

\* C4 witness: patch was called with a falsy resource for a registered, unloaded
\* container, the load completed and its callback left meshes unset.
C4_Witness ==
    /\ lastPatch.branch = "load"
    /\ ~lastPatch.resource
    /\ patchCalls = 1
    /\ loadCalls = 1
    /\ regState = "loaded"
    /\ ContainerRender(renderIndex) # 0
    /\ meshes = 0
    /\ extractions = 0

\* a step in which the registry delivers 'load:<id>' or 'add:<id>' for the container
Delivery == regState' # regState

\* C22: a 'load:<id>' (or 'add:<id>') notification delivered after the render asset's
\* resource became falsy changes neither meshes nor the count of extractions nor the
\* resource, and calls no load; with a resource, when the container has no mesh group
\* at the render index, meshes is left as it was.
C22_LateCallbackIsInert ==
    [][Delivery =>
          /\ ~resourceOK =>
                /\ meshes' = meshes
                /\ extractions' = extractions
                /\ resourceOK' = resourceOK
                /\ loadCalls' = loadCalls
          /\ ContainerRender(renderIndex) = 0 =>
                /\ meshes' = meshes
                /\ extractions' = extractions]_vars

\* C22 witness: patch subscribed to 'load:<id>' while the asset had its resource, the
\* resource was unloaded, and the load then completed and called the callback.
C22_Witness ==
    /\ lastPatch.branch = "load"
    /\ lastPatch.resource
    /\ ~resourceOK
    /\ regState = "loaded"
    /\ regSubs = <<>>
    /\ ContainerRender(renderIndex) # 0
    /\ meshes = 0
    /\ extractions = 0

\* C5: the registry never holds more than one subscription per event key for the
\* render asset, and the load of the container performs the extraction at most once.
C5_NoDuplicateSubscriptions ==
    [][/\ Len(Matching(regSubs', "add")) <= 1
       /\ Len(Matching(regSubs', "load")) <= 1
       /\ (regState = "unloaded" /\ regState' = "loaded") =>
              extractions' <= extractions + 1]_vars

\* ============================================================ TextureHandler
\* ------------------------------------------------------------------ textures
\* the elements of a list
Range(q) == {q[i] : i \in DOMAIN q}

Max(a, b) == IF a >= b THEN a ELSE b

\* x >> n on non-negative integers
Shr(x, n) == x \div (2 ^ n)

\* PIXELFORMAT_R8_G8_B8_A8, PIXELFORMAT_RGBA32F, PIXELFORMAT_R8_G8_B8
Formats == {"RGBA8", "RGBA32F", "RGB8"}

\* the values of texture.type: the four of JSON_TEXTURE_TYPE, and undefined
TextureTypes == {"default", "rgbm", "rgbe", "swizzleGGGR"}

\* a texture. levels holds one entry per mip level (its size; for a cube map the size
\* of each of its six faces); html says level 0 (face 0 of a cube map) is a canvas,
\* image or video element; levelsUpdated holds per entry one flag (six for a cube map)
Tex(kind, w, h, fmt, vol, comp, cube, html, lv, upd, ty) ==
    [kind |-> kind, width |-> w, height |-> h, format |-> fmt, volume |-> vol,
     compressed |-> comp, cubemap |-> cube, html |-> html, levels |-> lv,
     levelsUpdated |-> upd, type |-> ty]

\* what is not a texture: null, undefined, and "no value yet"
NoTex(kind) == Tex(kind, 0, 0, "RGB8", FALSE, FALSE, FALSE, FALSE, <<>>, <<>>, "default")

\* the flags of one entry of levelsUpdated
Flags(cube, b) == IF cube THEN <<b, b, b, b, b, b>> ELSE <<b>>

\* levels 0..n-1 of the mip chain of a w x h texture
Chain(w, h, n) == [i \in 1..n |-> [w |-> Max(1, Shr(w, i - 1)), h |-> Max(1, Shr(h, i - 1))]]

\* floor(log2(m)) + 1 for m >= 1
FullChain(m) == CHOOSE k \in 1..(m + 1) : 2 ^ (k - 1) <= m /\ m < 2 ^ k

\* textures of any size, format and kind with the first n levels of the chain,
\* either not yet uploaded (dirtyAll) or clean
TexturesOfAnyLength ==
    {Tex("texture", w, h, fmt, vol, comp, cube, html, Chain(w, h, n),
         IF dirty THEN <<Flags(cube, TRUE)>> ELSE [i \in 1..n |-> Flags(cube, FALSE)],
         "default") :
        w \in 1..MaxDim, h \in 1..MaxDim, fmt \in Formats, vol \in BOOLEAN,
        comp \in BOOLEAN, cube \in BOOLEAN, html \in BOOLEAN,
        n \in 1..FullChain(MaxDim), dirty \in BOOLEAN}

\* the textures a parser returns: no more levels than floor(log2(max(w, h))) + 1
ParserTextures ==
    {t \in TexturesOfAnyLength : Len(t.levels) <= FullChain(Max(t.width, t.height))}

\* ------------------------------------------------ _completePartialMipmapChain
\* downsample(width, height, data): the size of the sampled data
Downsample(width, height) == [w |-> Max(1, Shr(width, 1)), h |-> Max(1, Shr(height, 1))]

RECURSIVE StepThroughLevels(_, _)
\* the loop over the missing levels. level < Math.log2(max(width, height)) + 1 holds
\* exactly when 2^(level - 1) < max(width, height)
StepThroughLevels(t, level) ==
    IF 2 ^ (level - 1) < Max(t.width, t.height)
    THEN StepThroughLevels(
             [t EXCEPT !.levels = Append(@, Downsample(Max(1, Shr(t.width, level - 1)),
                                                       Max(1, Shr(t.height, level - 1))))],
             level + 1)
    ELSE t

\* _completePartialMipmapChain without its last statement, the write of _levelsUpdated
CompletePartialMipmapChainKeepingFlags(t) ==
    IF \/ ~(t.format = "RGBA8" \/ t.format = "RGBA32F")
       \/ t.volume
       \/ t.compressed
       \/ Len(t.levels) = 1
       \/ 2 ^ (Len(t.levels) - 1) = Max(t.width, t.height)
       \/ t.html
    THEN t
    ELSE StepThroughLevels(t, Len(t.levels))

\* _completePartialMipmapChain without its test of texture._compressed
CompletePartialMipmapChainOfCompressed(t) ==
    IF \/ ~(t.format = "RGBA8" \/ t.format = "RGBA32F")
       \/ t.volume
       \/ Len(t.levels) = 1
       \/ 2 ^ (Len(t.levels) - 1) = Max(t.width, t.height)
       \/ t.html
    THEN t
    ELSE [StepThroughLevels(t, Len(t.levels)) EXCEPT
              !.levelsUpdated = <<Flags(t.cubemap, TRUE)>>]

\* _completePartialMipmapChain(texture). levels.length === requiredMipLevels holds
\* exactly when max(width, height) = 2^(levels.length - 1)
CompletePartialMipmapChain(t) ==
    IF \/ ~(t.format = "RGBA8" \/ t.format = "RGBA32F")
       \/ t.volume
       \/ t.compressed
       \/ Len(t.levels) = 1
       \/ 2 ^ (Len(t.levels) - 1) = Max(t.width, t.height)
       \/ t.html
    THEN t
    ELSE [StepThroughLevels(t, Len(t.levels)) EXCEPT
              !.levelsUpdated = <<Flags(t.cubemap, TRUE)>>]

\* ------------------------------------------------------------ parser selection
\* a URL is a string, held as the sequence of its pieces: names, "." , "/" and "?"
ExtNames == {"dds", "DDS", "ktx", "Ktx", "basis", "png", "ddsx", "constructor"}

Urls ==
    {path \o ext \o query :
        path \in {<<>>, <<"tex">>, <<"a", ".", "b", "/", "tex">>},
        ext \in {<<>>} \cup {<<".", e>> : e \in ExtNames},
        query \in {<<>>, <<"?", "v">>, <<"?", "f", ".", "dds">>, <<"?", "f", ".", "png">>}}

\* the index of the first (last) piece of q equal to c, or 0
IndexOf(q, c) ==
    IF c \in Range(q) THEN CHOOSE i \in DOMAIN q : q[i] = c /\ \A j \in 1..(i - 1) : q[j] # c
    ELSE 0

LastIndexOf(q, c) ==
    IF c \in Range(q)
    THEN CHOOSE i \in DOMAIN q : q[i] = c /\ \A j \in (i + 1)..Len(q) : q[j] # c
    ELSE 0

\* String.prototype.toLowerCase on one piece and on a string
LowerPiece(c) == CASE c = "DDS" -> "dds" [] c = "Ktx" -> "ktx" [] OTHER -> c

ToLowerCase(q) == [i \in DOMAIN q |-> LowerPiece(q[i])]

\* _getUrlWithoutParams(url)
GetUrlWithoutParams(url) ==
    IF IndexOf(url, "?") > 0 THEN SubSeq(url, 1, IndexOf(url, "?") - 1) ELSE url

\* pc.path.getExtension(s): "." and what follows the last "." before any "?", or ""
PathGetExtension(q) ==
    LET sp == GetUrlWithoutParams(q)
    IN IF LastIndexOf(sp, ".") > 0 THEN SubSeq(sp, LastIndexOf(sp, "."), Len(sp)) ELSE <<>>

\* String.prototype.replace('.', ''): the first "." is taken out
ReplaceDot(q) ==
    IF IndexOf(q, ".") > 0
    THEN SubSeq(q, 1, IndexOf(q, ".") - 1) \o SubSeq(q, IndexOf(q, ".") + 1, Len(q))
    ELSE q

\* this.parsers[ext]: the three own properties, what the object inherits from
\* Object.prototype (a truthy value that is no parser), or undefined
ParsersGet(ext) ==
    CASE ext = <<"dds">> -> "dds"
      [] ext = <<"ktx">> -> "ktx"
      [] ext = <<"basis">> -> "basis"
      [] ext = <<"constructor">> -> "Object.prototype.constructor"
      [] OTHER -> "undefined"

\* _getParser(url)
GetParser(url) ==
    LET ext == ReplaceDot(ToLowerCase(PathGetExtension(GetUrlWithoutParams(url))))
    IN IF ParsersGet(ext) # "undefined" THEN ParsersGet(ext) ELSE "img"

\* the url argument of load: a string, or an object with load and original
LoadUrls ==
    {[string |-> TRUE, load |-> u, original |-> u] : u \in Urls}
    \cup {[string |-> FALSE, load |-> <<"blob">>, original |-> u] : u \in Urls}

\* load(url, callback, asset): the parser the load is handed to
LoadParser(url) ==
    LET u == IF url.string THEN [load |-> url.load, original |-> url.load]
             ELSE [load |-> url.load, original |-> url.original]
    IN GetParser(u.original)

\* ------------------------------------------------------------------ open
\* new pc.Texture(device, { width: 4, height: 4, format: PIXELFORMAT_R8_G8_B8 })
Placeholder ==
    Tex("texture", 4, 4, "RGB8", FALSE, FALSE, FALSE, FALSE, <<[w |-> 4, h |-> 4]>>,
        <<Flags(FALSE, TRUE)>>, "default")

\* open(url, data, asset), parsed being what the parser's open returns for the data
Open(url, parsed) ==
    IF url = <<>> THEN NoTex("undefined")
    ELSE IF parsed.kind = "null" THEN Placeholder
    ELSE CompletePartialMipmapChain(parsed)

\* ------------------------------------------------------------------ patch
\* asset.data and asset.file of a texture asset, as far as the texture type goes:
\* opt is the opt of the preferred file, -1 when it has none, -2 when
\* getPreferredFile() returns nothing
Descriptors ==
    [hasType : BOOLEAN, type : TextureTypes \cup {"bogus"}, hasRgbm : BOOLEAN,
     rgbm : BOOLEAN, file : BOOLEAN, opt : {-2, -1, 0, 4, 8, 12}]

\* JSON_TEXTURE_TYPE[name]
JsonTextureType(name) == IF name \in TextureTypes THEN name ELSE "undefined"

\* patch(asset, assets): the texture afterwards
PatchTexture(t, d) ==
    IF t.kind # "texture" THEN t
    ELSE IF d.hasType THEN [t EXCEPT !.type = JsonTextureType(d.type)]
    ELSE IF d.hasRgbm /\ d.rgbm THEN [t EXCEPT !.type = "rgbm"]
    ELSE IF d.file /\ d.opt # -2 /\ d.opt >= 0 /\ (d.opt \div 8) % 2 = 1
         THEN [t EXCEPT !.type = "swizzleGGGR"]
    ELSE t

\* ------------------------------------------------------------ the operations
NoDescriptor ==
    [hasType |-> FALSE, type |-> "default", hasRgbm |-> FALSE, rgbm |-> FALSE,
     file |-> FALSE, opt |-> -2]

TexLog(op, url, parser, parsed, data, pre) ==
    [op |-> op, url |-> url, parser |-> parser, parsed |-> parsed, data |-> data,
     pre |-> pre]

InitTexture ==
    /\ texture = NoTex("none")
    /\ texLog = TexLog("none", <<>>, "none", NoTex("none"), NoDescriptor, NoTex("none"))

\* handler.load(url, ...)
TexLoad(url) ==
    /\ texLog' = TexLog("load", url.original, LoadParser(url), NoTex("none"),
                        NoDescriptor, NoTex("none"))
    /\ UNCHANGED <<texture, resolverVars, componentVars>>

\* handler.open(url, data): the result becomes asset.resource
TexOpen(url, parsed) ==
    /\ texture' = Open(url, parsed)
    /\ texLog' = TexLog("open", url, IF url = <<>> THEN "none" ELSE GetParser(url),
                        parsed, NoDescriptor, NoTex("none"))
    /\ UNCHANGED <<resolverVars, componentVars>>

\* handler.patch(asset, assets) with the asset's data and file being d
TexPatch(d) ==
    /\ texture' = PatchTexture(texture, d)
    /\ texLog' = TexLog("patch", <<>>, "none", NoTex("none"), d, texture)
    /\ UNCHANGED <<resolverVars, componentVars>>

\* the urls open is called with when the data is what matters
OpenUrls == {<<>>, <<"tex", ".", "png">>, <<"tex", ".", "Ktx", "?", "v">>}

\* one open call: the parser hands back any texture, or null for data that does not
\* decode
NextTextureOpen ==
    /\ texLog.op = "none"
    /\ \E url \in OpenUrls, parsed \in ParserTextures \cup {NoTex("null")} :
           TexOpen(url, parsed)

\* parser selection and patching of a texture that was opened
NextTextureAsset ==
    \/ \E url \in LoadUrls : TexLoad(url)
    \/ \E url \in Urls, parsed \in {NoTex("null"), Placeholder} : TexOpen(url, parsed)
    \/ \E d \in Descriptors : TexPatch(d)

\* =========================================================== RenderComponent
LayerIds == 0..MaxLayerId
UserInst == 1..NumUserInst
Inst == 1..(NumUserInst + Max(MaxPrims, MaxShapes))
BatchIds == {-1} \cup (0..MaxBatchGroup)
Types == {"asset", "box"}

\* this._meshInstances: null, or a list of instances
Null == [null |-> TRUE, list |-> <<>>]
List(l) == [null |-> FALSE, list |-> l]

\* the values a caller assigns to meshInstances: null and the lists of at most two
\* of the caller's instances
MeshInstanceValues ==
    {Null, List(<<>>)}
    \cup {List(<<a>>) : a \in UserInst}
    \cup {List(<<p[1], p[2]>>) : p \in {q \in UserInst \X UserInst : q[1] < q[2]}}

\* the values a caller assigns to layers: the lists of at most two distinct layer ids
LayerLists ==
    {<<>>} \cup {<<a>> : a \in LayerIds}
    \cup {<<p[1], p[2]>> : p \in {q \in LayerIds \X LayerIds : q[1] < q[2]}}

\* the materials: the system's default material, another one a caller assigns, the
\* material a caller's instance comes with, and "none" for an instance not yet built
Materials == {"default", "other"}

\* the event keys ('load:<id>', 'remove:<id>', ...) _setMaterialEvent is called with
MaterialEventKeys == {"load:7", "remove:7"}

\* this._materialEvents: null, or the keys recorded (at index 0)
NoEvents == [null |-> TRUE, keys |-> {}]

\* the component, its entity and the scene as one value
S == [type |-> type, area |-> area, castShadows |-> castShadows,
      batchGroupId |-> batchGroupId, meshInstances |-> meshInstances, layers |-> layers,
      enabled |-> enabled, entityEnabled |-> entityEnabled, primCount |-> primCount,
      miCastShadow |-> miCastShadow, sceneLayers |-> sceneLayers, layerMI |-> layerMI,
      layerSC |-> layerSC, batchNodes |-> batchNodes, sceneSubs |-> sceneSubs,
      threw |-> threw, material |-> material, miMaterial |-> miMaterial,
      entitySubs |-> entitySubs, materialEvents |-> materialEvents,
      assetSubs |-> assetSubs, detached |-> detached,
      receiveShadows |-> receiveShadows, isStatic |-> isStatic,
      lightmapped |-> lightmapped, miReceiveShadow |-> miReceiveShadow,
      miIsStatic |-> miIsStatic, miLightmapped |-> miLightmapped,
      staleSubs |-> staleSubs]

\* ------------------------------------------------------ the scene's layers
\* scene.layers.getLayerById(id) finds a layer
GetLayerById(s, id) == id \in s.sceneLayers

RECURSIVE LayerAddMeshInstances(_, _, _)
\* Layer.addMeshInstances(list): an instance not yet in the layer's list is pushed,
\* and one whose castShadow is set is pushed on the shadow casters if not there
LayerAddMeshInstances(s, L, list) ==
    IF list = <<>> THEN s
    ELSE LET m == Head(list)
             s1 == [s EXCEPT !.layerMI[L][m] = IF @ = 0 THEN 1 ELSE @,
                             !.layerSC[L][m] = IF s.miCastShadow[m] /\ @ = 0 THEN 1 ELSE @]
         IN LayerAddMeshInstances(s1, L, Tail(list))

RECURSIVE LayerRemoveMeshInstances(_, _, _)
\* Layer.removeMeshInstances(list): one entry of each instance is spliced out of the
\* layer's list and out of its shadow casters
LayerRemoveMeshInstances(s, L, list) ==
    IF list = <<>> THEN s
    ELSE LET m == Head(list)
             s1 == [s EXCEPT !.layerMI[L][m] = IF @ > 0 THEN @ - 1 ELSE 0,
                             !.layerSC[L][m] = IF @ > 0 THEN @ - 1 ELSE 0]
         IN LayerRemoveMeshInstances(s1, L, Tail(list))

RECURSIVE LayerAddShadowCasters(_, _, _)
\* Layer.addShadowCasters(list): instances whose castShadow is set, not yet casters
LayerAddShadowCasters(s, L, list) ==
    IF list = <<>> THEN s
    ELSE LET m == Head(list)
             s1 == [s EXCEPT !.layerSC[L][m] = IF s.miCastShadow[m] /\ @ = 0 THEN 1 ELSE @]
         IN LayerAddShadowCasters(s1, L, Tail(list))

RECURSIVE LayerRemoveShadowCasters(_, _, _)
\* Layer.removeShadowCasters(list)
LayerRemoveShadowCasters(s, L, list) ==
    IF list = <<>> THEN s
    ELSE LET m == Head(list)
             s1 == [s EXCEPT !.layerSC[L][m] = IF @ > 0 THEN @ - 1 ELSE 0]
         IN LayerRemoveShadowCasters(s1, L, Tail(list))

\* ------------------------------------------------------------- the batcher
\* batcher.insert(BatchGroup.RENDER, id, entity): the node joins the group once
BatcherInsert(s, g) == [s EXCEPT !.batchNodes = @ \cup {g}]

\* batcher.remove(BatchGroup.RENDER, id, entity)
BatcherRemove(s, g) == [s EXCEPT !.batchNodes = @ \ {g}]

\* ------------------------------------------------ RenderComponent methods
RECURSIVE AddToLayersFromUnchecked(_, _)
\* the loop of addToLayers without its test of the layer found: addMeshInstances is
\* read on the undefined that getLayerById returns for an id it does not know
AddToLayersFromUnchecked(s, ids) ==
    IF ids = <<>> THEN s
    ELSE IF ~GetLayerById(s, Head(ids)) THEN [s EXCEPT !.threw = TRUE]
    ELSE IF s.meshInstances.null THEN [s EXCEPT !.threw = TRUE]
    ELSE AddToLayersFromUnchecked(
             LayerAddMeshInstances(s, Head(ids), s.meshInstances.list), Tail(ids))

RECURSIVE AddToLayersFrom(_, _)
\* the loop of addToLayers over the layer ids left. With a null list the first layer
\* that resolves raises: Layer.addMeshInstances reads the length of null.
AddToLayersFrom(s, ids) ==
    IF ids = <<>> THEN s
    ELSE IF ~GetLayerById(s, Head(ids)) THEN AddToLayersFrom(s, Tail(ids))
    ELSE IF s.meshInstances.null THEN [s EXCEPT !.threw = TRUE]
    ELSE AddToLayersFrom(LayerAddMeshInstances(s, Head(ids), s.meshInstances.list),
                         Tail(ids))

\* addToLayers()
AddToLayers(s) == AddToLayersFrom(s, s.layers)

RECURSIVE RemoveFromLayersFrom(_, _)
\* the loop of removeFromLayers over the layer ids left
RemoveFromLayersFrom(s, ids) ==
    IF ids = <<>> THEN s
    ELSE IF ~GetLayerById(s, Head(ids)) THEN RemoveFromLayersFrom(s, Tail(ids))
    ELSE IF s.meshInstances.null THEN [s EXCEPT !.threw = TRUE]
    ELSE RemoveFromLayersFrom(
             LayerRemoveMeshInstances(s, Head(ids), s.meshInstances.list), Tail(ids))

\* removeFromLayers()
RemoveFromLayers(s) == RemoveFromLayersFrom(s, s.layers)

\* onEnable()
OnEnable(s) ==
    LET s1 == [s EXCEPT !.sceneSubs = [setLayers |-> @.setLayers + 1,
                                       layerAdd |-> @.layerAdd + 1,
                                       layerRemove |-> @.layerRemove + 1]]
        s2 == IF ~s1.meshInstances.null THEN AddToLayers(s1) ELSE s1
    IN IF s2.batchGroupId >= 0 THEN BatcherInsert(s2, s2.batchGroupId) ELSE s2

\* onDisable()
OnDisable(s) ==
    LET s1 == [s EXCEPT !.sceneSubs = [setLayers |-> 0, layerAdd |-> 0, layerRemove |-> 0]]
        s2 == IF s1.batchGroupId >= 0 THEN BatcherRemove(s1, s1.batchGroupId) ELSE s1
    IN IF ~s2.meshInstances.null THEN RemoveFromLayers(s2) ELSE s2

\* the MeshInstance the type setter builds: a new object, with the flags of a new
\* MeshInstance (castShadow false, receiveShadow true, isStatic false, not lightmapped)
NewPrim(s) == NumUserInst + s.primCount + 1

\* the type setter building its MeshInstance with the system's default material
SetTypeDefaultMaterial(s, value) ==
    IF s.type = value THEN s
    ELSE IF value # "asset"
         THEN [s EXCEPT !.type = value,
                        !.area = value,
                        !.meshInstances = List(<<NewPrim(s)>>),
                        !.miCastShadow[NewPrim(s)] = FALSE,
                        !.miReceiveShadow[NewPrim(s)] = TRUE,
                        !.miIsStatic[NewPrim(s)] = FALSE,
                        !.miLightmapped[NewPrim(s)] = FALSE,
                        !.miMaterial[NewPrim(s)] = "default",
                        !.primCount = @ + 1]
         ELSE [s EXCEPT !.type = value, !.area = "null"]

\* set type(value)
SetType(s, value) ==
    IF s.type = value THEN s
    ELSE IF value # "asset"
         THEN [s EXCEPT !.type = value,
                        !.area = value,
                        !.meshInstances = List(<<NewPrim(s)>>),
                        !.miCastShadow[NewPrim(s)] = FALSE,
                        !.miReceiveShadow[NewPrim(s)] = TRUE,
                        !.miIsStatic[NewPrim(s)] = FALSE,
                        !.miLightmapped[NewPrim(s)] = FALSE,
                        !.miMaterial[NewPrim(s)] = s.material,
                        !.primCount = @ + 1]
         ELSE [s EXCEPT !.type = value, !.area = "null"]

RECURSIVE StampCastShadow(_, _, _)
\* castShadow = value on every instance of a list
StampCastShadow(s, list, value) ==
    IF list = <<>> THEN s
    ELSE StampCastShadow([s EXCEPT !.miCastShadow[Head(list)] = value], Tail(list), value)

RECURSIVE StampReceiveShadow(_, _, _)
\* receiveShadow = value on every instance of a list
StampReceiveShadow(s, list, value) ==
    IF list = <<>> THEN s
    ELSE StampReceiveShadow([s EXCEPT !.miReceiveShadow[Head(list)] = value],
                            Tail(list), value)

RECURSIVE StampIsStatic(_, _, _)
\* isStatic = value on every instance of a list
StampIsStatic(s, list, value) ==
    IF list = <<>> THEN s
    ELSE StampIsStatic([s EXCEPT !.miIsStatic[Head(list)] = value], Tail(list), value)

RECURSIVE StampLightmapped(_, _, _)
\* setLightmapped(value) on every instance of a list
StampLightmapped(s, list, value) ==
    IF list = <<>> THEN s
    ELSE StampLightmapped([s EXCEPT !.miLightmapped[Head(list)] = value],
                          Tail(list), value)

\* the three flags the meshInstances setter and the flag setters write
StampFlags(s, list) ==
    StampIsStatic(StampReceiveShadow(StampCastShadow(s, list, s.castShadows),
                                     list, s.receiveShadows),
                  list, s.isStatic)

\* set lightmapped(value)
SetLightmapped(s, value) ==
    IF value # s.lightmapped
    THEN LET s1 == [s EXCEPT !.lightmapped = value]
         IN IF ~s1.meshInstances.null
            THEN StampLightmapped(s1, s1.meshInstances.list, value)
            ELSE s1
    ELSE s

\* set receiveShadows(value): the loop writes through meshInstances, a name that is
\* not declared in the setter nor anywhere in its scope: a ReferenceError at the first
\* instance, after this._receiveShadows was written
SetReceiveShadows(s, value) ==
    IF s.receiveShadows # value
    THEN LET s1 == [s EXCEPT !.receiveShadows = value]
         IN IF ~s1.meshInstances.null /\ s1.meshInstances.list # <<>>
            THEN [s1 EXCEPT !.threw = TRUE]
            ELSE s1
    ELSE s

\* set isStatic(value)
SetIsStatic(s, value) ==
    IF s.isStatic # value
    THEN LET s1 == [s EXCEPT !.isStatic = value]
         IN IF ~s1.meshInstances.null
            THEN StampIsStatic(s1, s1.meshInstances.list, value)
            ELSE s1
    ELSE s

\* the meshInstances setter without its removeFromLayers of the previous list
SetMeshInstancesNoUnbind(s, value) ==
    LET s2 == [s EXCEPT !.meshInstances = value]
    IN IF value.null THEN s2
       ELSE LET s3 == SetLightmapped(StampFlags(s2, value.list), s2.lightmapped)
            IN IF s3.enabled /\ s3.entityEnabled THEN AddToLayers(s3) ELSE s3

\* set meshInstances(value)
SetMeshInstances(s, value) ==
    LET s1 == IF ~s.meshInstances.null THEN RemoveFromLayers(s) ELSE s
        s2 == [s1 EXCEPT !.meshInstances = value]
    IN IF value.null THEN s2
       ELSE LET s3 == SetLightmapped(StampFlags(s2, value.list), s2.lightmapped)
            IN IF s3.enabled /\ s3.entityEnabled THEN AddToLayers(s3) ELSE s3

RECURSIVE RemoveShadowCastersFrom(_, _)
\* the first loop of the castShadows setter
RemoveShadowCastersFrom(s, ids) ==
    IF ids = <<>> THEN s
    ELSE IF ~GetLayerById(s, Head(ids)) THEN RemoveShadowCastersFrom(s, Tail(ids))
    ELSE RemoveShadowCastersFrom(
             LayerRemoveShadowCasters(s, Head(ids), s.meshInstances.list), Tail(ids))

RECURSIVE AddShadowCastersFrom(_, _)
\* the last loop of the castShadows setter
AddShadowCastersFrom(s, ids) ==
    IF ids = <<>> THEN s
    ELSE IF ~GetLayerById(s, Head(ids)) THEN AddShadowCastersFrom(s, Tail(ids))
    ELSE AddShadowCastersFrom(
             LayerAddShadowCasters(s, Head(ids), s.meshInstances.list), Tail(ids))

\* set castShadows(value)
SetCastShadows(s, value) ==
    IF s.castShadows = value THEN s
    ELSE IF s.meshInstances.null THEN [s EXCEPT !.castShadows = value]
    ELSE LET s1 == IF s.castShadows /\ ~value THEN RemoveShadowCastersFrom(s, s.layers)
                   ELSE s
             s2 == StampCastShadow(s1, s1.meshInstances.list, value)
             s3 == IF ~s.castShadows /\ value THEN AddShadowCastersFrom(s2, s2.layers)
                   ELSE s2
         IN [s3 EXCEPT !.castShadows = value]

\* one step of an operation: a call on a layer or a write, with the castShadow flags
\* of the current instances and the stored castShadows at that moment
Step(call, layer, s) ==
    [call |-> call, layer |-> layer,
     flags |-> IF s.meshInstances.null THEN {}
               ELSE {s.miCastShadow[m] : m \in Range(s.meshInstances.list)},
     stored |-> s.castShadows, arg |-> <<>>]

RECURSIVE LayerSteps(_, _, _)
\* the calls of a loop of the castShadows setter over the layer ids left
LayerSteps(s, ids, call) ==
    IF ids = <<>> THEN <<>>
    ELSE IF ~GetLayerById(s, Head(ids)) THEN LayerSteps(s, Tail(ids), call)
    ELSE <<Step(call, Head(ids), s)>> \o LayerSteps(s, Tail(ids), call)

\* the castShadows setter writing the flags before it takes the instances out of the
\* shadow casters
CastShadowsStepsFlagsFirst(s, value) ==
    IF s.castShadows = value THEN <<>>
    ELSE IF s.meshInstances.null THEN <<Step("_castShadows=", -1, [s EXCEPT !.castShadows = value])>>
    ELSE LET s2 == StampCastShadow(s, s.meshInstances.list, value)
             s1 == IF s.castShadows /\ ~value THEN RemoveShadowCastersFrom(s2, s2.layers)
                   ELSE s2
             s3 == IF ~s.castShadows /\ value THEN AddShadowCastersFrom(s1, s1.layers)
                   ELSE s1
         IN <<Step("castShadow=", -1, s2)>>
            \o (IF s.castShadows /\ ~value
                THEN LayerSteps(s2, s2.layers, "removeShadowCasters") ELSE <<>>)
            \o (IF ~s.castShadows /\ value
                THEN LayerSteps(s1, s1.layers, "addShadowCasters") ELSE <<>>)
            \o <<Step("_castShadows=", -1, [s3 EXCEPT !.castShadows = value])>>

\* the steps of set castShadows(value) in the order the setter takes them, each with
\* the state right after it (for a layer call: the state it is made in)
CastShadowsSteps(s, value) ==
    IF s.castShadows = value THEN <<>>
    ELSE IF s.meshInstances.null THEN <<Step("_castShadows=", -1, [s EXCEPT !.castShadows = value])>>
    ELSE LET s1 == IF s.castShadows /\ ~value THEN RemoveShadowCastersFrom(s, s.layers)
                   ELSE s
             s2 == StampCastShadow(s1, s1.meshInstances.list, value)
             s3 == IF ~s.castShadows /\ value THEN AddShadowCastersFrom(s2, s2.layers)
                   ELSE s2
         IN (IF s.castShadows /\ ~value
             THEN LayerSteps(s, s.layers, "removeShadowCasters") ELSE <<>>)
            \o <<Step("castShadow=", -1, s2)>>
            \o (IF ~s.castShadows /\ value
                THEN LayerSteps(s2, s2.layers, "addShadowCasters") ELSE <<>>)
            \o <<Step("_castShadows=", -1, [s3 EXCEPT !.castShadows = value])>>

\* set layers(value)
SetLayers(s, value) ==
    LET s1 == IF ~s.meshInstances.null THEN RemoveFromLayers(s) ELSE s
        s2 == [s1 EXCEPT !.layers = value]
    IN IF ~s2.enabled \/ ~s2.entityEnabled \/ s2.meshInstances.null THEN s2
       ELSE AddToLayers(s2)

\* set layers(value) with value being the very list this._layers: emptying the
\* stored list empties the argument, so nothing is copied back
SetLayersSame(s) ==
    LET s1 == IF ~s.meshInstances.null THEN RemoveFromLayers(s) ELSE s
        s2 == [s1 EXCEPT !.layers = <<>>]
    IN IF ~s2.enabled \/ ~s2.entityEnabled \/ s2.meshInstances.null THEN s2
       ELSE AddToLayers(s2)

RECURSIVE SetMaterialOn(_, _, _)
\* material = value on every instance of a list
SetMaterialOn(s, list, value) ==
    IF list = <<>> THEN s
    ELSE SetMaterialOn([s EXCEPT !.miMaterial[Head(list)] = value], Tail(list), value)

\* _setMaterial without its test of the type
SetMaterialOfAnyType(s, value) ==
    IF s.material = value THEN s
    ELSE LET s1 == [s EXCEPT !.material = value]
         IN IF ~s1.meshInstances.null
            THEN SetMaterialOn(s1, s1.meshInstances.list, value)
            ELSE s1

\* set material(value), through _setMaterial
SetMaterial(s, value) ==
    IF s.material = value THEN s
    ELSE LET s1 == [s EXCEPT !.material = value]
         IN IF ~s1.meshInstances.null /\ s1.type # "asset"
            THEN SetMaterialOn(s1, s1.meshInstances.list, value)
            ELSE s1

\* the batchGroupId setter without its addToLayers on the way back to "no group"
SetBatchGroupIdNoReAdd(s, value) ==
    IF s.batchGroupId = value THEN s
    ELSE LET s1 == IF s.entityEnabled /\ s.batchGroupId >= 0
                   THEN BatcherRemove(s, s.batchGroupId) ELSE s
             s2 == IF s.entityEnabled /\ value >= 0 THEN BatcherInsert(s1, value) ELSE s1
         IN [s2 EXCEPT !.batchGroupId = value]

\* set batchGroupId(value)
SetBatchGroupId(s, value) ==
    IF s.batchGroupId = value THEN s
    ELSE LET s1 == IF s.entityEnabled /\ s.batchGroupId >= 0
                   THEN BatcherRemove(s, s.batchGroupId) ELSE s
             s2 == IF s.entityEnabled /\ value >= 0 THEN BatcherInsert(s1, value) ELSE s1
             s3 == IF value < 0 /\ s.batchGroupId >= 0 /\ s.enabled /\ s.entityEnabled
                   THEN AddToLayers(s2) ELSE s2
         IN IF s3.threw THEN s3 ELSE [s3 EXCEPT !.batchGroupId = value]

\* ------------------------------------- the component's and entity's enabled flag
\* Component 'enabled' setter: on a change, onEnable or onDisable when the entity is
\* enabled
SetEnabled(s, value) ==
    IF s.enabled = value THEN s
    ELSE LET s1 == [s EXCEPT !.enabled = value]
         IN IF ~s1.entityEnabled THEN s1
            ELSE IF value THEN OnEnable(s1) ELSE OnDisable(s1)

\* Entity 'enabled' change: onEnable or onDisable of every enabled component
SetEntityEnabled(s, value) ==
    IF s.entityEnabled = value THEN s
    ELSE LET s1 == [s EXCEPT !.entityEnabled = value]
         IN IF ~s1.enabled THEN s1
            ELSE IF value THEN OnEnable(s1) ELSE OnDisable(s1)

\* the batcher builds its batches: a node of a group whose component names that group
\* has its geometry taken out of the layers (node.render.removeFromLayers())
BatcherGenerate(s) == RemoveFromLayers(s)

\* ------------------------------------------- detach and the entity's notifications
\* _setMaterialEvent(0, event, id, handler): subscribe in the asset registry and record
\* the key
SetMaterialEvent(s, evt) ==
    [s EXCEPT !.assetSubs[evt] = @ + 1,
              !.materialEvents = [null |-> FALSE, keys |-> @.keys \cup {evt}]]

\* _unsetMaterialEvents(): assets.off for every key recorded, then forget the record
UnsetMaterialEvents(s) ==
    IF s.materialEvents.null THEN s
    ELSE [s EXCEPT !.assetSubs = [k \in MaterialEventKeys |->
                                     IF k \in s.materialEvents.keys THEN 0 ELSE @[k]],
                   !.materialEvents = NoEvents]

\* onRemove()
OnRemove(s) ==
    [UnsetMaterialEvents(s) EXCEPT !.entitySubs = [insert |-> 0, remove |-> 0],
                                   !.detached = TRUE]

\* onLayersChanged(oldComp, newComp), old being the component's callbacks on oldComp.
\* addToLayers is called whatever the list: with a null list it raises at the first
\* layer that resolves, and the callbacks are then left where they were
OnLayersChanged(s, old) ==
    LET s1 == AddToLayers(s)
    IN IF s1.threw THEN s1
       ELSE [s1 EXCEPT !.staleSubs = [layerAdd |-> @.layerAdd - old.layerAdd,
                                      layerRemove |-> @.layerRemove - old.layerRemove],
                       !.sceneSubs.layerAdd = @ + 1,
                       !.sceneSubs.layerRemove = @ + 1]

\* onLayerAdded(layer)
OnLayerAdded(s, L) ==
    IF IndexOf(s.layers, L) = 0 THEN s
    ELSE IF s.meshInstances.null THEN [s EXCEPT !.threw = TRUE]
    ELSE LayerAddMeshInstances(s, L, s.meshInstances.list)

\* onLayerRemoved(layer)
OnLayerRemoved(s, L) ==
    IF IndexOf(s.layers, L) = 0 THEN s
    ELSE IF s.meshInstances.null THEN [s EXCEPT !.threw = TRUE]
    ELSE LayerRemoveMeshInstances(s, L, s.meshInstances.list)

\* scene.layers = a new layer composition holding the layers ids: the callbacks on the
\* old composition stay on it, and 'set:layers' is fired with the old and the new one
SceneSetLayers(s, ids) ==
    LET old == [layerAdd |-> s.sceneSubs.layerAdd, layerRemove |-> s.sceneSubs.layerRemove]
        s0 == [s EXCEPT !.sceneLayers = ids,
                        !.sceneSubs.layerAdd = 0,
                        !.sceneSubs.layerRemove = 0,
                        !.staleSubs = [layerAdd |-> @.layerAdd + old.layerAdd,
                                       layerRemove |-> @.layerRemove + old.layerRemove]]
    IN IF s.sceneSubs.setLayers > 0 THEN OnLayersChanged(s0, old) ELSE s0

\* scene.layers.push(layer): the composition has the layer and fires 'add'
SceneLayerAdded(s, L) ==
    LET s0 == [s EXCEPT !.sceneLayers = @ \cup {L}]
    IN IF s.sceneSubs.layerAdd > 0 THEN OnLayerAdded(s0, L) ELSE s0

\* scene.layers.remove(layer): the composition loses the layer and fires 'remove'
SceneLayerRemoved(s, L) ==
    LET s0 == [s EXCEPT !.sceneLayers = @ \ {L}]
    IN IF s.sceneSubs.layerRemove > 0 THEN OnLayerRemoved(s0, L) ELSE s0

\* onRemoveChild()
OnRemoveChild(s) == IF ~s.meshInstances.null THEN RemoveFromLayers(s) ELSE s

\* onInsertChild()
OnInsertChild(s) ==
    IF ~s.meshInstances.null /\ s.enabled /\ s.entityEnabled THEN AddToLayers(s) ELSE s

\* ------------------------------------------------------------ the operations
\* the variables take the values of s
Commit(s) ==
    /\ type' = s.type
    /\ area' = s.area
    /\ castShadows' = s.castShadows
    /\ batchGroupId' = s.batchGroupId
    /\ meshInstances' = s.meshInstances
    /\ layers' = s.layers
    /\ enabled' = s.enabled
    /\ entityEnabled' = s.entityEnabled
    /\ primCount' = s.primCount
    /\ miCastShadow' = s.miCastShadow
    /\ sceneLayers' = s.sceneLayers
    /\ layerMI' = s.layerMI
    /\ layerSC' = s.layerSC
    /\ batchNodes' = s.batchNodes
    /\ sceneSubs' = s.sceneSubs
    /\ threw' = s.threw
    /\ material' = s.material
    /\ miMaterial' = s.miMaterial
    /\ entitySubs' = s.entitySubs
    /\ materialEvents' = s.materialEvents
    /\ assetSubs' = s.assetSubs
    /\ detached' = s.detached
    /\ receiveShadows' = s.receiveShadows
    /\ isStatic' = s.isStatic
    /\ lightmapped' = s.lightmapped
    /\ miReceiveShadow' = s.miReceiveShadow
    /\ miIsStatic' = s.miIsStatic
    /\ miLightmapped' = s.miLightmapped
    /\ staleSubs' = s.staleSubs

\* the state an operation starts from
Entry == [S EXCEPT !.threw = FALSE]

\* both the component and its entity are enabled
IsEnabled == enabled /\ entityEnabled

\* operation op with argument arg opens a round trip: the state before it is kept.
\* onEnable always does; a setter does when the component is enabled, has geometry
\* and the set changes the property away from its value
OpensRoundTrip(op, arg) ==
    \/ op = "onEnable"
    \/ /\ IsEnabled
       /\ ~meshInstances.null
       /\ \/ op = "setLayers" /\ arg # layers
          \/ op = "setCastShadows" /\ castShadows /\ arg = FALSE
          \/ op = "setBatchGroupId" /\ batchGroupId = -1 /\ arg >= 0

\* operation op with argument arg, coming right after operation f that started from
\* state pre, closes the round trip f opened
ClosesRoundTrip(f, pre, op, arg) ==
    \/ f = "onEnable" /\ op = "onDisable"
    \/ f = "setLayers" /\ op = "setLayers" /\ arg = pre.layers
    \/ f = "setCastShadows" /\ op = "setCastShadows" /\ arg = TRUE
    \/ f = "setBatchGroupId" /\ op = "setBatchGroupId" /\ arg = -1

\* the record of the last operation, or of the round trip it closes
Recorded(op, arg) ==
    IF Len(hist.ops) = 1 /\ Len(hist.pre) = 1
       /\ ClosesRoundTrip(hist.ops[1], hist.pre[1], op, arg)
    THEN [ops |-> <<hist.ops[1], op>>, pre |-> hist.pre]
    ELSE IF OpensRoundTrip(op, arg) THEN [ops |-> <<op>>, pre |-> <<S>>]
    ELSE [ops |-> <<op>>, pre |-> <<>>]

\* operation op with argument arg leads to s, its steps being cs
DoFollowed(op, arg, s, cs) ==
    /\ Commit(s)
    /\ hist' = Recorded(op, arg)
    /\ calls' = cs
    /\ UNCHANGED <<resolverVars, textureVars>>

Do(op, arg, s) == DoFollowed(op, arg, s, <<>>)

InitComponent ==
    /\ type = "asset"
    /\ area = "null"
    /\ castShadows = TRUE
    /\ batchGroupId = -1
    /\ meshInstances = List(<<>>)
    /\ layers = <<LAYERID_WORLD>>
    /\ enabled = FALSE
    /\ entityEnabled \in BOOLEAN
    /\ primCount = 0
    /\ miCastShadow = [m \in Inst |-> FALSE]
    /\ sceneLayers = 0..1
    /\ layerMI = [L \in LayerIds |-> [m \in Inst |-> 0]]
    /\ layerSC = [L \in LayerIds |-> [m \in Inst |-> 0]]
    /\ batchNodes = {}
    /\ sceneSubs = [setLayers |-> 0, layerAdd |-> 0, layerRemove |-> 0]
    /\ threw = FALSE
    /\ hist = [ops |-> <<>>, pre |-> <<>>]
    /\ material = "default"
    /\ miMaterial = [m \in Inst |-> IF m \in UserInst THEN "own" ELSE "none"]
    /\ entitySubs = [insert |-> 1, remove |-> 1]
    /\ materialEvents = NoEvents
    /\ assetSubs = [k \in MaterialEventKeys |-> 0]
    /\ detached = FALSE
    /\ calls = <<>>
    /\ receiveShadows = TRUE
    /\ isStatic = FALSE
    /\ lightmapped = FALSE
    /\ miReceiveShadow = [m \in Inst |-> TRUE]
    /\ miIsStatic = [m \in Inst |-> FALSE]
    /\ miLightmapped = [m \in Inst |-> FALSE]
    /\ staleSubs = [layerAdd |-> 0, layerRemove |-> 0]

\* component.type = value
AssignType(value) ==
    /\ (value # "asset" /\ value # type) => primCount < MaxPrims
    /\ Do("setType", value, SetType(Entry, value))

\* component.meshInstances = value
AssignMeshInstances(value) ==
    Do("setMeshInstances", value, SetMeshInstances(Entry, value))

\* component.castShadows = value
AssignCastShadows(value) ==
    Do("setCastShadows", value, SetCastShadows(Entry, value))

\* component.receiveShadows = value
AssignReceiveShadows(value) ==
    Do("setReceiveShadows", value, SetReceiveShadows(Entry, value))

\* component.isStatic = value
AssignIsStatic(value) ==
    Do("setIsStatic", value, SetIsStatic(Entry, value))

\* component.lightmapped = value
AssignLightmapped(value) ==
    Do("setLightmapped", value, SetLightmapped(Entry, value))

\* component.layers = value
AssignLayers(value) ==
    Do("setLayers", value, SetLayers(Entry, value))

\* component.batchGroupId = value
AssignBatchGroupId(value) ==
    Do("setBatchGroupId", value, SetBatchGroupId(Entry, value))

\* component.enabled = value
AssignEnabled(value) ==
    /\ enabled # value
    /\ Do(IF ~entityEnabled THEN "setEnabled"
          ELSE IF value THEN "onEnable" ELSE "onDisable", value, SetEnabled(Entry, value))

\* entity.enabled = value
AssignEntityEnabled(value) ==
    /\ entityEnabled # value
    /\ Do(IF ~enabled THEN "setEntityEnabled"
          ELSE IF value THEN "onEnable" ELSE "onDisable", value,
          SetEntityEnabled(Entry, value))

\* a pass of the batcher over the group the component names
BatcherRun ==
    /\ batchGroupId >= 0
    /\ batchGroupId \in batchNodes
    /\ ~meshInstances.null
    /\ Do("batcherGenerate", batchGroupId, BatcherGenerate(Entry))

\* _setMaterialEvent(0, event, id, handler) for the key evt
CallSetMaterialEvent(evt) ==
    /\ assetSubs[evt] < MaxSubs
    /\ Do("setMaterialEvent", evt, SetMaterialEvent(Entry, evt))

\* the component system removes the component from its entity: onRemove()
Detach ==
    /\ ~detached
    /\ Do("onRemove", 0, OnRemove(Entry))

\* the entity fires 'insert': onInsertChild if still subscribed
NodeInsert ==
    Do("nodeInsert", 0, IF entitySubs.insert > 0 THEN OnInsertChild(Entry) ELSE Entry)

\* the entity fires 'remove': onRemoveChild if still subscribed
NodeRemove ==
    Do("nodeRemove", 0, IF entitySubs.remove > 0 THEN OnRemoveChild(Entry) ELSE Entry)

\* the layers a composition assigned to scene.layers may hold
LayerSets == SUBSET LayerIds

\* app.scene.layers = a new composition
ReplaceSceneLayers(ids) ==
    /\ staleSubs.layerAdd < MaxSubs
    /\ Do("setSceneLayers", ids, SceneSetLayers(Entry, ids))

\* app.scene.layers.push(layer)
PushSceneLayer(L) ==
    /\ L \notin sceneLayers
    /\ Do("layerAdded", L, SceneLayerAdded(Entry, L))

\* app.scene.layers.remove(layer)
RemoveSceneLayer(L) ==
    /\ L \in sceneLayers
    /\ Do("layerRemoved", L, SceneLayerRemoved(Entry, L))

\* the shapes of the type setter, and the primitives it may build, where the
\* component's fields are followed
Shapes == Types \cup {"sphere"}

\* component.type = value, for any shape
AssignShape(value) ==
    /\ (value # "asset" /\ value # type) => primCount < MaxShapes
    /\ Do("setType", value, SetType(Entry, value))

\* component.material = value
AssignMaterial(value) ==
    DoFollowed("setMaterial", value, SetMaterial(Entry, value),
               <<[Step("material=", -1, Entry) EXCEPT !.arg = <<value>>]>>)

\* component.castShadows = value, its steps followed
AssignCastShadowsFollowed(value) ==
    DoFollowed("setCastShadows", value, SetCastShadows(Entry, value),
               CastShadowsSteps(Entry, value))

\* component.layers = value, where value is a list of the caller's or (same) the list
\* the layers getter returned; the contents of the argument at the call are kept
AssignLayersFollowed(value, same) ==
    /\ same => value = layers
    /\ DoFollowed("setLayers", value,
                  IF same THEN SetLayersSame(Entry) ELSE SetLayers(Entry, value),
                  <<[Step("layers=", -1, Entry) EXCEPT !.arg = value]>>)

NextComponent ==
    \/ \E value \in Types : AssignType(value)
    \/ \E value \in MeshInstanceValues : AssignMeshInstances(value)
    \/ \E value \in BOOLEAN : AssignCastShadows(value)
    \/ \E value \in LayerLists : AssignLayers(value)
    \/ \E value \in BatchIds : AssignBatchGroupId(value)
    \/ \E value \in BOOLEAN : AssignEnabled(value)
    \/ \E value \in BOOLEAN : AssignEntityEnabled(value)
    \/ BatcherRun

\* ---------------------------------------------------------- specifications
\* the resolver alone: the component stays as constructed
InitOfResolver ==
    /\ InitResolver
    /\ InitComponent
    /\ InitTexture
    /\ ~entityEnabled

SpecResolver == InitOfResolver /\ [][NextResolver]_vars

\* the component alone: no render asset is being resolved
InitOfComponent ==
    /\ InitComponent
    /\ InitResolver
    /\ InitTexture
    /\ regState = "absent"
    /\ ~hasContainerRef
    /\ renderIndex = 0
    /\ ~resourceOK

SpecComponent == InitOfComponent /\ [][NextComponent]_vars

\* the texture handler alone
InitOfTexture ==
    /\ InitOfComponent
    /\ ~entityEnabled

SpecTextureOpen == InitOfTexture /\ [][NextTextureOpen]_vars

SpecTextureAsset == InitOfTexture /\ [][NextTextureAsset]_vars

\* the component's life up to and after its removal from the entity
NextLifecycle ==
    \/ \E value \in MeshInstanceValues : AssignMeshInstances(value)
    \/ \E value \in LayerLists : AssignLayers(value)
    \/ \E value \in BOOLEAN : AssignEnabled(value)
    \/ \E value \in BOOLEAN : AssignEntityEnabled(value)
    \/ \E evt \in MaterialEventKeys : CallSetMaterialEvent(evt)
    \/ Detach
    \/ NodeInsert
    \/ NodeRemove

SpecLifecycle == InitOfComponent /\ [][NextLifecycle]_vars

\* the component's type, material and geometry under their setters
NextFields ==
    \/ \E value \in Shapes : AssignShape(value)
    \/ \E value \in Materials : AssignMaterial(value)
    \/ \E value \in MeshInstanceValues : AssignMeshInstances(value)
    \/ \E value \in BOOLEAN : AssignEnabled(value)

SpecFields == InitOfComponent /\ [][NextFields]_vars

\* the castShadows and layers setters followed step by step
NextSetters ==
    \/ \E value \in Types : AssignType(value)
    \/ \E value \in MeshInstanceValues : AssignMeshInstances(value)
    \/ \E value \in BOOLEAN : AssignCastShadowsFollowed(value)
    \/ \E value \in LayerLists, same \in BOOLEAN : AssignLayersFollowed(value, same)
    \/ \E value \in BOOLEAN : AssignEnabled(value)

SpecSetters == InitOfComponent /\ [][NextSetters]_vars

\* the component under changes of the scene's layers and of its own
NextScene ==
    \/ \E value \in MeshInstanceValues : AssignMeshInstances(value)
    \/ \E value \in LayerLists : AssignLayers(value)
    \/ \E value \in BOOLEAN : AssignEnabled(value)
    \/ \E value \in BOOLEAN : AssignEntityEnabled(value)
    \/ \E ids \in LayerSets : ReplaceSceneLayers(ids)
    \/ \E L \in LayerIds : PushSceneLayer(L)
    \/ \E L \in LayerIds : RemoveSceneLayer(L)

SpecScene == InitOfComponent /\ [][NextScene]_vars

\* the component's layer membership under the operations that add to and remove from
\* the layers, the scene's layers being fixed
NextLayers ==
    \/ \E value \in MeshInstanceValues : AssignMeshInstances(value)
    \/ \E value \in LayerLists : AssignLayers(value)
    \/ \E value \in BOOLEAN : AssignCastShadows(value)
    \/ \E value \in BOOLEAN : AssignEnabled(value)
    \/ \E value \in BOOLEAN : AssignEntityEnabled(value)
    \/ NodeInsert
    \/ NodeRemove

SpecLayers == InitOfComponent /\ [][NextLayers]_vars

\* the per-instance flags: the setters that write them and the two that replace the list
NextFlags ==
    \/ \E value \in Types : AssignType(value)
    \/ \E value \in MeshInstanceValues : AssignMeshInstances(value)
    \/ \E value \in BOOLEAN : AssignCastShadows(value)
    \/ \E value \in BOOLEAN : AssignReceiveShadows(value)
    \/ \E value \in BOOLEAN : AssignIsStatic(value)
    \/ \E value \in BOOLEAN : AssignLightmapped(value)

SpecFlags == InitOfComponent /\ [][NextFlags]_vars

\* ----------------------------------------------- RenderComponent: the claims
\* the instances of the component's current list
Current == IF meshInstances.null THEN {} ELSE Range(meshInstances.list)

\* the layers of the current layer set that getLayerById finds
ResolvableLayers == Range(layers) \cap sceneLayers

\* C1: whenever the component and its entity are enabled, the list is non-null and no
\* batch group is assigned, an instance is in a layer's mesh instance list exactly when
\* it is in the current list and the layer is a resolvable layer of the layer set.
C1_LayerMembership ==
    (IsEnabled /\ ~meshInstances.null /\ batchGroupId = -1) =>
        \A L \in LayerIds, m \in Inst :
            layerMI[L][m] > 0 <=> (m \in Current /\ L \in ResolvableLayers)

\* C6: onDisable right after onEnable leaves every layer's mesh instance list, the
\* entity's batch groups and the component's scene subscriptions as they were before
\* onEnable.
C6_DisableInvertsEnable ==
    hist.ops = <<"onEnable", "onDisable">> =>
        /\ layerMI = hist.pre[1].layerMI
        /\ batchNodes = hist.pre[1].batchNodes
        /\ sceneSubs = hist.pre[1].sceneSubs

\* C8: with geometry present and the component and entity enabled, setting layers to
\* another list and then back to the original list leaves every layer's mesh instance
\* list and the stored layer ids as they were.
C8_LayersRoundTrip ==
    hist.ops = <<"setLayers", "setLayers">> =>
        /\ layerMI = hist.pre[1].layerMI
        /\ layers = hist.pre[1].layers

\* C9: with geometry present and the component enabled, castShadows true -> false ->
\* true leaves the shadow casters of every layer of the layer set as they were, and the
\* castShadow flag of every instance true.
C9_CastShadowsRoundTrip ==
    hist.ops = <<"setCastShadows", "setCastShadows">> =>
        /\ \A L \in ResolvableLayers : layerSC[L] = hist.pre[1].layerSC[L]
        /\ \A m \in Current : miCastShadow[m]

C10_BatchRoundTrip ==
    /\ (hist.ops = <<"setBatchGroupId">> /\ hist.pre # <<>>) =>
           /\ batchGroupId \in batchNodes
           /\ \A L \in LayerIds, m \in Current : layerMI[L][m] = 0
    /\ hist.ops = <<"setBatchGroupId", "setBatchGroupId">> =>
           /\ batchNodes = {}
           /\ \A L \in ResolvableLayers, m \in Current : layerMI[L][m] = 1

\* C10 (amended): enabled and with geometry, batchGroupId -1 -> g registers the entity
\* in group g and leaves every layer's lists as they are (taking the geometry out is
\* left to the batcher); g -> -1 takes the entity out of group g and leaves each
\* current instance exactly once in every resolvable layer of the layer set, whether
\* the batcher had taken it out or not.
C10_BatchSetter ==
    [][(IsEnabled /\ ~meshInstances.null /\ batchGroupId' # batchGroupId) =>
          /\ (batchGroupId = -1) =>
                 /\ batchGroupId' \in batchNodes'
                 /\ layerMI' = layerMI
                 /\ layerSC' = layerSC
          /\ (batchGroupId' = -1) =>
                 /\ batchGroupId \notin batchNodes'
                 /\ \A L \in ResolvableLayers, m \in Current : layerMI'[L][m] = 1]_vars

\* C10 witness: the round trip -1 -> g -> -1 has been made with an instance in a
\* resolvable layer, registered once, and the entity in no group.
C10_Witness ==
    /\ hist.ops = <<"setBatchGroupId", "setBatchGroupId">>
    /\ IsEnabled
    /\ batchGroupId = -1
    /\ batchNodes = {}
    /\ Current # {}
    /\ ResolvableLayers # {}
    /\ \A L \in ResolvableLayers, m \in Current : layerMI[L][m] = 1

\* C11 (as claimed): right after onRemove no instance of the component is in any
\* layer's mesh instance list, no callback of the component is left in the asset
\* registry and none on the entity's 'insert' and 'remove'.
C11_DetachUnbindsEverywhere ==
    hist.ops = <<"onRemove">> =>
        /\ \A L \in LayerIds, m \in Inst : layerMI[L][m] = 0
        /\ \A k \in MaterialEventKeys : assetSubs[k] = 0
        /\ entitySubs = [insert |-> 0, remove |-> 0]

\* ------------------------------------------------ TextureHandler: the claims
\* open has been called with a url that is not empty and the parser returned a texture
Opened == texLog.op = "open" /\ texLog.url # <<>> /\ texLog.parsed.kind = "texture"

\* C12 (as claimed): whatever the url and the data, open returns a texture, and it
\* returns the 4x4 placeholder, with its single level, when the parser returned null.
C12_OpenFailSoft ==
    texLog.op = "open" =>
        /\ texture.kind = "texture"
        /\ texLog.parsed.kind = "null" => texture = Placeholder

\* the texture is one the completion pass works on: RGBA8 or RGBA32F, not a volume,
\* not compressed, level 0 raw data, more than one level
Eligible(t) ==
    /\ t.format \in {"RGBA8", "RGBA32F"}
    /\ ~t.volume
    /\ ~t.compressed
    /\ ~t.html
    /\ Len(t.levels) > 1

\* C13 (as claimed): an eligible texture with fewer levels than, or exactly,
\* floor(log2(max(width, height))) + 1 has exactly that many levels after open, each
\* level after the first being max(1, dim >> 1) of the one before on both axes.
C13_CompletedLevelCount ==
    (Opened /\ Eligible(texLog.parsed)) =>
        /\ Len(texture.levels) = FullChain(Max(texture.width, texture.height))
        /\ \A i \in 2..Len(texture.levels) :
               /\ texture.levels[i].w = Max(1, Shr(texture.levels[i - 1].w, 1))
               /\ texture.levels[i].h = Max(1, Shr(texture.levels[i - 1].h, 1))

\* C14: a texture that is compressed, or a volume, or of a format other than RGBA8
\* and RGBA32F, or whose level 0 is a canvas, image or video element, or that has one
\* level, comes out of the completion pass with the same levels and the same
\* levels-updated flags.
C14_IneligibleUntouched ==
    (Opened /\ (\/ texLog.parsed.compressed
                \/ texLog.parsed.volume
                \/ texLog.parsed.format \notin {"RGBA8", "RGBA32F"}
                \/ texLog.parsed.html
                \/ Len(texLog.parsed.levels) = 1)) =>
        /\ texture.levels = texLog.parsed.levels
        /\ texture.levelsUpdated = texLog.parsed.levelsUpdated

\* C14 witness: a compressed RGBA8 texture with two of the levels of its chain, which
\* the pass would have completed had it not been compressed, was opened and kept its
\* two levels.
C14_Witness ==
    /\ Opened
    /\ texLog.parsed.compressed
    /\ texLog.parsed.format = "RGBA8"
    /\ ~texLog.parsed.volume
    /\ ~texLog.parsed.html
    /\ texLog.parsed.width = 4
    /\ Len(texLog.parsed.levels) = 2
    /\ texture.levels = Chain(4, texLog.parsed.height, 2)

\* open completed the chain: the texture has levels the parser did not return
Synthesized == Opened /\ Len(texture.levels) > Len(texLog.parsed.levels)

\* C24 (as claimed): after the pass synthesized levels, each synthesized level has an
\* entry in the levels-updated flags and the entry is true (for each face of a cube map).
C24_EachNewLevelFlagged ==
    Synthesized =>
        \A i \in (Len(texLog.parsed.levels) + 1)..Len(texture.levels) :
            /\ i \in DOMAIN texture.levelsUpdated
            /\ \A f \in DOMAIN texture.levelsUpdated[i] : texture.levelsUpdated[i][f]

\* C24 (amended): after the pass synthesized levels, the levels-updated flags are one
\* entry, that of level 0, and it is true (true for each of the six faces of a cube
\* map); the synthesized levels have no entry of their own.
C24_FlagsResetToLevelZero ==
    Synthesized =>
        /\ Len(texture.levelsUpdated) = 1
        /\ Len(texture.levelsUpdated[1]) = (IF texture.cubemap THEN 6 ELSE 1)
        /\ \A f \in DOMAIN texture.levelsUpdated[1] : texture.levelsUpdated[1][f]

\* C24 witness: a cube map returned by the parser with two levels, none of them flagged,
\* was opened and left with the three levels of a 4 x 4 chain.
C24_Witness ==
    /\ Synthesized
    /\ texture.cubemap
    /\ Len(texLog.parsed.levels) = 2
    /\ texLog.parsed.levelsUpdated = <<Flags(TRUE, FALSE), Flags(TRUE, FALSE)>>
    /\ texture.width = 4
    /\ Len(texture.levels) = 3

\* the texture type the priority order gives for a descriptor: the explicit type, else
\* RGBM for rgbm: true, else swizzled GGGR for bit 8 of the preferred file's options,
\* else the default
TypeByPriority(d) ==
    IF d.hasType THEN JsonTextureType(d.type)
    ELSE IF d.hasRgbm /\ d.rgbm THEN "rgbm"
    ELSE IF d.file /\ d.opt >= 0 /\ (d.opt \div 8) % 2 = 1 THEN "swizzleGGGR"
    ELSE "default"

\* C15 (as claimed): after patch of an asset whose resource is a texture, the texture's
\* type is the one the priority order explicit type > rgbm: true > option bit 8 >
\* default gives for the asset's descriptor.
C15_TypePriority ==
    (texLog.op = "patch" /\ texLog.pre.kind = "texture") =>
        texture.type = TypeByPriority(texLog.data)

\* the file extension of a url, lowercased: the name after the last "." of the last
\* path segment, query parameters left out; <<>> when there is none
FileExtension(url) ==
    LET sp == GetUrlWithoutParams(url)
        file == SubSeq(sp, LastIndexOf(sp, "/") + 1, Len(sp))
    IN IF LastIndexOf(file, ".") > 0
       THEN ToLowerCase(SubSeq(file, LastIndexOf(file, ".") + 1, Len(file)))
       ELSE <<>>

\* C16 (as claimed): load (by url.original) and open (by url) hand the url to the dds,
\* ktx or basis parser exactly when its lowercased extension, query parameters left
\* out, is dds, ktx or basis, and to the image parser for every other extension and
\* for no extension.
C16_ParserSelection ==
    (texLog.op \in {"load", "open"} /\ texLog.url # <<>>) =>
        texLog.parser = IF FileExtension(texLog.url) \in {<<"dds">>, <<"ktx">>, <<"basis">>}
                        THEN FileExtension(texLog.url)[1]
                        ELSE "img"

\* ------------------------------------ RenderComponent: fields and setter steps
\* the last operation recorded
LastOp(h) == IF h.ops = <<>> THEN "none" ELSE h.ops[Len(h.ops)]

\* C17: a set of type to a different shape other than 'asset' leaves as geometry
\* exactly one instance, newly built, with the component's material, and the area of
\* that shape; a set to 'asset' from another type leaves area null and the geometry
\* list as it was; a set to the current type changes nothing.
C17_TypeSetter ==
    [][LastOp(hist') = "setType" =>
          /\ (type' # type /\ type' # "asset") =>
                 /\ meshInstances' = List(<<NumUserInst + primCount + 1>>)
                 /\ primCount' = primCount + 1
                 /\ miMaterial'[NumUserInst + primCount + 1] = material
                 /\ material' = material
                 /\ area' = type'
          /\ (type' # type /\ type' = "asset") =>
                 /\ area' = "null"
                 /\ meshInstances' = meshInstances
          /\ type' = type =>
                 UNCHANGED <<area, meshInstances, primCount, material, miMaterial,
                             miCastShadow, layers, layerMI, layerSC>>]_vars

\* C17 witness: with the material changed, the type has gone from one primitive to
\* another; the geometry is the single instance built last, with that material.
C17_Witness ==
    /\ LastOp(hist) = "setType"
    /\ type = "sphere"
    /\ area = "sphere"
    /\ primCount = 2
    /\ meshInstances = List(<<NumUserInst + 2>>)
    /\ material = "other"
    /\ miMaterial[NumUserInst + 2] = "other"

\* C18: a set of material to a different value stores it and writes it onto every
\* current instance when the type is not 'asset', and onto none when it is; a set to
\* the current material changes nothing.
C18_MaterialSetter ==
    [][LastOp(hist') = "setMaterial" =>
          /\ material' = calls'[1].arg[1]
          /\ material' # material =>
                 \A m \in Inst :
                     miMaterial'[m] = IF type # "asset" /\ m \in Current THEN material'
                                      ELSE miMaterial[m]
          /\ material' = material => miMaterial' = miMaterial
          /\ UNCHANGED <<type, meshInstances, layers, layerMI, layerSC>>]_vars

\* C18 witness: the type is a primitive and the material was set to another one,
\* which the primitive's instance now has.
C18_Witness ==
    /\ LastOp(hist) = "setMaterial"
    /\ type = "box"
    /\ material = "other"
    /\ meshInstances = List(<<NumUserInst + 1>>)
    /\ miMaterial[NumUserInst + 1] = "other"

\* the layers of the calls of a kind among the steps cs
LayersCalled(cs, call) == {cs[i].layer : i \in {j \in DOMAIN cs : cs[j].call = call}}

C20_LayersReplacedInPlace ==
    [][LastOp(hist') = "setLayers" => layers' = calls'[1].arg]_vars

\* ------------------------------------------- RenderComponent: the scene's layers
\* C21 (as claimed): after scene.layers was replaced on an enabled component the
\* handler raised no error, the geometry is in every resolvable layer of the new set
\* and the component's 'add' and 'remove' callbacks are on the new set; and at all times
\* the component has callbacks on no former layer set, at most one of each on the
\* current one, and none while it is disabled.
C21_LayerSetReplaced ==
    /\ (LastOp(hist) = "setSceneLayers" /\ IsEnabled) =>
           /\ ~threw
           /\ \A L \in ResolvableLayers, m \in Current : layerMI[L][m] > 0
           /\ sceneSubs.layerAdd = 1
           /\ sceneSubs.layerRemove = 1
    /\ staleSubs = [layerAdd |-> 0, layerRemove |-> 0]
    /\ sceneSubs.layerAdd <= 1
    /\ sceneSubs.layerRemove <= 1
    /\ ~IsEnabled => (sceneSubs.layerAdd = 0 /\ sceneSubs.layerRemove = 0)

\* C25: enable, disable, the layers, meshInstances and castShadows setters and the
\* node's 'insert' and 'remove' handlers raise no error whatever ids the layer list
\* holds, and change the mesh instance and shadow caster lists of no layer but the
\* layers of the list (the one before or the one after) that getLayerById finds.
C25_UnresolvableSkipped ==
    [][/\ ~threw'
       /\ \A L \in LayerIds :
              (L \notin sceneLayers \/ L \notin Range(layers) \cup Range(layers')) =>
                  (layerMI'[L] = layerMI[L] /\ layerSC'[L] = layerSC[L])]_vars

\* C25 witness: a component whose layer list names the world layer and a layer the
\* scene does not have was enabled with geometry: the geometry is in the world layer
\* and no error was raised.
C25_Witness ==
    /\ LastOp(hist) = "onEnable"
    /\ layers = <<0, 2>>
    /\ 2 \notin sceneLayers
    /\ ~threw
    /\ Current # {}
    /\ \A m \in Current : layerMI[0][m] = 1 /\ layerMI[2][m] = 0

\* ------------------------------------------- RenderComponent: per-instance flags
\* C23 (as claimed): after meshInstances was set to a list, every instance of the list
\* is lightmapped exactly when the component's lightmapped is true.
C23_LightmappedReapplied ==
    (LastOp(hist) = "setMeshInstances" /\ ~meshInstances.null) =>
        \A m \in Current : miLightmapped[m] = lightmapped

\* C26 (as claimed): no set of castShadows, receiveShadows, isStatic, type or
\* meshInstances raises an error, and every instance of the current list has
\* castShadow, receiveShadow and isStatic equal to the component's values.
C26_FlagsConsistent ==
    /\ ~threw
    /\ \A m \in Current :
           /\ miCastShadow[m] = castShadows
           /\ miReceiveShadow[m] = receiveShadows
           /\ miIsStatic[m] = isStatic

\* ------------------------------------ RenderComponent: batch groups, disabled state
\* C27 (as claimed): the entity is registered in batch group g exactly when the
\* component is enabled, the entity is enabled and batchGroupId is g >= 0.
C27_BatchMembership ==
    \A g \in 0..MaxBatchGroup :
        g \in batchNodes <=> (IsEnabled /\ batchGroupId = g)

\* C28 (as claimed): whenever the component or its entity is disabled, no instance is
\* in the mesh instance list or in the shadow caster list of any layer.
C28_NothingRegisteredWhileDisabled ==
    ~IsEnabled =>
        \A L \in LayerIds, m \in Inst : layerMI[L][m] = 0 /\ layerSC[L][m] = 0

====
